---- MODULE Spec2Model ----
(***************************************************************************)
(* JsonChronicler (curium-rocks/json-chronicler): the write scheduler, the *)
(* file lifecycle, the rotation policy, the compactor and disposal, as a   *)
(* state machine whose steps are the code's synchronous blocks: one step   *)
(* per public call and one step per awaited I/O call.                      *)
(***************************************************************************)
EXTENDS Integers, Sequences, FiniteSets, TLC

\* ------------------------------------------------------------------ bounds
MaxRecords == 2     \* saveRecord calls
MaxClock == 2       \* the wall clock runs 0..MaxClock (milliseconds)
MaxDrains == 3      \* processFileOperations invocations
MaxPublic == 1      \* public rotateLog() / compactLogs() calls
MaxComponent == 2   \* each component of RotationOptions ranges over 0..MaxComponent
MaxSeconds == 2     \* the rotation policy is looked at over 0..MaxSeconds seconds

VARIABLES
    clock,              \* new Date().getTime()
    rotationSettings,   \* options.rotationSettings, as given to the constructor
    rotationIntervalMs, \* this.rotationIntervalMs
    factory,            \* JsonChroniclerFactory.buildChronicler: its argument and outcome
    mutated,            \* the records their caller changed after saveRecord(record)
    disposed,           \* this.disposed
    firstWrite,         \* this.firstWrite
    fileHandle,         \* this.fileHandle: 0 (undefined) or an index of handles
    currentFile,        \* this.currentFile: UndefinedName or a file name
    lastRotationMs,     \* this.lastRotationMs: NoTime (undefined) or epoch ms
    operationQueue,     \* this.operationQueue: the queued records, push order
    operationTimer,     \* the timer this.operationTimer refers to is armed
    orphanTimers,       \* armed timers this.operationTimer no longer refers to
    operationPromise,   \* this.operationPromise: 0 (undefined) or an index of tasks
    disposePromise,     \* this.disposePromise: "undefined", "pending", "resolved"
    tasks,              \* the async call chains: drains, rotateLog(), compactLogs()
    disposer,           \* the async executor of disposeAsync
    dir,                \* the log directory: file name -> inode
    inodes,             \* inode -> content, a sequence of written chunks
    handles,            \* the file handles ever opened: [name, ino, open, pos]
    saveFuture,         \* per saveRecord call, the state of the future it returned
    flushes,            \* the flush() call observed: the promise it waits on
    disposeCalls        \* the repeated disposeAsync() call observed: what it returned

\* what no step of the chronicler changes
config == <<rotationSettings, rotationIntervalMs, factory, mutated>>
sched == <<operationQueue, operationTimer, orphanTimers, operationPromise>>
fileState == <<firstWrite, fileHandle, currentFile, lastRotationMs>>
disk == <<dir, inodes, handles>>
callers == <<saveFuture, flushes, disposeCalls>>
vars == <<clock, config, disposed, disposePromise, tasks, disposer,
          sched, fileState, disk, callers>>

\* ----------------------------------------------------------------- values
\* the rotation intervals tried, given as options.rotationSettings.milliseconds
RotationIntervals == {0, 1}

\* RotationOptions: a record holding the components that are given, each of
\* days, hours, minutes, seconds, milliseconds being optional
Components == {"days", "hours", "minutes", "seconds", "milliseconds"}

\* if(options.x): an absent component (undefined) and 0 are falsy
Truthy(options, x) == x \in DOMAIN options /\ options[x] # 0

\* mutant: hours are counted as minutes
GetMsFromRotationOptions_HoursAsMinutes(options) ==
    LET t0 == 0
        t1 == IF Truthy(options, "days") THEN t0 + options.days * 86400000 ELSE t0
        t2 == IF Truthy(options, "hours") THEN t1 + options.hours * 60000 ELSE t1
        t3 == IF Truthy(options, "minutes") THEN t2 + options.minutes * 60000 ELSE t2
        t4 == IF Truthy(options, "seconds") THEN t3 + options.seconds * 1000 ELSE t3
    IN  IF Truthy(options, "milliseconds") THEN t4 + options.milliseconds ELSE t4

\* getMsFromRotationOptions(options)
GetMsFromRotationOptions(options) ==
    LET t0 == 0
        t1 == IF Truthy(options, "days") THEN t0 + options.days * 86400000 ELSE t0
        t2 == IF Truthy(options, "hours") THEN t1 + options.hours * 3600000 ELSE t1
        t3 == IF Truthy(options, "minutes") THEN t2 + options.minutes * 60000 ELSE t2
        t4 == IF Truthy(options, "seconds") THEN t3 + options.seconds * 1000 ELSE t3
    IN  IF Truthy(options, "milliseconds") THEN t4 + options.milliseconds ELSE t4

LogName == "test"
NoTime == -1
UndefinedName == <<"undefined", 0, "">>
NA == <<"N/A", 0, "">>

Front(s) == SubSeq(s, 1, Len(s) - 1)

\* the JSON text of record k: {"id":k} as it is when saveRecord is called,
\* {"id":k,"changed":true} once its caller has changed the object
Serialization(r, changed) ==
    "{\"id\":" \o ToString(r) \o (IF changed THEN ",\"changed\":true" ELSE "") \o "}"

\* JSON.stringify(record): the text of the object as it is now
Stringify(r) == Serialization(r, r \in mutated)

\* `${this.logName}.${new Date().getTime()}.json`
GenerateFilename == <<LogName, clock, "json">>

\* mutant: the "N/A" fallback is missing
GetCurrentFilename_Raw == currentFile

\* this.currentFile || "N/A"
GetCurrentFilename == IF currentFile = UndefinedName THEN NA ELSE currentFile

\* mutant: the remaining seconds are rounded toward zero instead of down
TimeTillRotation_Trunc(lrm) ==
    IF lrm = NoTime THEN rotationIntervalMs \div 1000
    ELSE LET timeTillRotation == (lrm + rotationIntervalMs) - clock
         IN  IF timeTillRotation < 0 THEN -((-timeTillRotation) \div 1000)
             ELSE timeTillRotation \div 1000

\* timeTillRotation(), on the value lrm of this.lastRotationMs
TimeTillRotation(lrm) ==
    IF lrm = NoTime THEN rotationIntervalMs \div 1000
    ELSE LET timeTillRotation == (lrm + rotationIntervalMs) - clock
         IN  IF timeTillRotation = 0 THEN 0 ELSE timeTillRotation \div 1000

\* mutant: the elapsed seconds are rounded to the nearest second
TimeSinceRotation_Round(lrm) ==
    IF lrm = NoTime THEN [num |-> clock, den |-> 1000]
    ELSE LET timeSinceMs == clock - lrm
         IN  IF timeSinceMs = 0 THEN [num |-> 0, den |-> 1]
             ELSE [num |-> (timeSinceMs + 500) \div 1000, den |-> 1]

\* timeSinceRotation(), on the value lrm of this.lastRotationMs; the number
\* returned is the fraction num/den (now/1000 is not rounded when no file
\* has been created)
TimeSinceRotation(lrm) ==
    IF lrm = NoTime THEN [num |-> clock, den |-> 1000]
    ELSE LET timeSinceMs == clock - lrm
         IN  IF timeSinceMs = 0 THEN [num |-> 0, den |-> 1]
             ELSE [num |-> timeSinceMs \div 1000, den |-> 1]

\* mutant: the rotation check is off by one second
ShouldRotate_Late(lrm) == TimeTillRotation(lrm) < -1

\* shouldRotate()
ShouldRotate(lrm) == TimeTillRotation(lrm) < 0

\* ------------------------------------------------------------ file system
\* fs.open(path, 'w'): creates the file, or truncates the existing one; the
\* new handle writes from position 0.
OpenIno(name) == IF name \in DOMAIN dir THEN dir[name] ELSE Len(inodes) + 1

OpenDir(name) ==
    IF name \in DOMAIN dir THEN dir
    ELSE [n \in DOMAIN dir \cup {name} |-> IF n = name THEN Len(inodes) + 1 ELSE dir[n]]

OpenInodes(name) ==
    IF name \in DOMAIN dir THEN [inodes EXCEPT ![dir[name]] = <<>>]
    ELSE Append(inodes, <<>>)

OpenHandles(name) ==
    Append(handles, [name |-> name, ino |-> OpenIno(name), open |-> TRUE, pos |-> 0])

\* content after writing the chunks toks at position pos (a gap reads as NUL)
WriteAt(content, pos, toks) ==
    LET n == IF Len(content) > pos + Len(toks) THEN Len(content) ELSE pos + Len(toks)
    IN  [i \in 1..n |-> IF i > pos /\ i <= pos + Len(toks) THEN toks[i - pos]
                        ELSE IF i <= Len(content) THEN content[i] ELSE "NUL"]

\* fileHandle.write(text): rejects on a closed handle
CanWrite(h) == handles[h].open

WriteInodes(h, toks) ==
    [inodes EXCEPT ![handles[h].ino] = WriteAt(@, handles[h].pos, toks)]

WriteHandles(h, toks) == [handles EXCEPT ![h].pos = @ + Len(toks)]

\* fileHandle.close(): closing a closed handle resolves and changes nothing
CloseHandles(h) == [handles EXCEPT ![h].open = FALSE]

\* zlib gzip of a file's content
Gzip(content) == <<"gzip">> \o content

GzName(name) == <<name[1], name[2], name[3] \o ".gz">>

\* ------------------------------------------------------------------ tasks
\* An async call chain and its locals.  kind: "drain" (the promise executor of
\* processFileOperations), "rotateLog" or "compactLogs" (a public call).
\* pc names the awaited call the chain is suspended on.
Task0(kind) ==
    [kind |-> kind, pc |-> "done", rec |-> 0, str |-> "", chunk |-> <<>>, wh |-> 0,
     ret |-> "", name |-> UndefinedName, nh |-> 0, oh |-> 0, files |-> {},
     cf |-> UndefinedName, at |-> ""]

\* a rejected chain, stopped with its locals at the awaited call `at`: inside
\* `new Promise(async ...)` the rejection is lost and the promise stays pending
Failed(t) == [t EXCEPT !.pc = "failed", !.at = t.pc]

NumDrains == Cardinality({i \in DOMAIN tasks : tasks[i].kind = "drain"})
NumPublic == Cardinality({i \in DOMAIN tasks : tasks[i].kind # "drain"})

\* this.operationQueue.pop(): removes and returns the LAST element
PopIndex(q) == Len(q)

PopRest(q) == Front(q)

\* this.operationQueue.push(op)
Push(q, r) == Append(q, r)

\* operation(): JSON.stringify(record), then shouldCreateFile() awaits fs.access
StartOp(r) ==
    [Task0("drain") EXCEPT !.pc = "access", !.rec = r, !.str = Stringify(r)]

\* this.fileHandle?.write(`${!this.firstWrite ? ',\n' : ''}${string}`): the text
\* and the handle are evaluated when the call is made
RecordChunk(fw, str) == (IF ~fw THEN <<",\n">> ELSE <<>>) \o <<str>>

IssueWrite(t, fh, fw) ==
    [t EXCEPT !.pc = "write", !.chunk = RecordChunk(fw, t.str), !.wh = fh]

\* rotateLog() up to its first await: oldHandle, name, createLogFile(name)
BeginRotate(t, fh) ==
    [t EXCEPT !.pc = "cl_open", !.ret = "rotate", !.oh = fh, !.name = GenerateFilename]

\* if(this.shouldRotate()) await this.rotateLog(); await this.fileHandle?.write(..)
RotateOrWrite(t, lrm, fh, fw) ==
    IF ShouldRotate(lrm) THEN BeginRotate(t, fh) ELSE IssueWrite(t, fh, fw)

\* mutant: the end of a drain arms the next batch timer even after disposal
ArmsNextTimer_Always(isDisposed) == TRUE

\* if(!this.disposed) at the end of processFileOperations' executor
ArmsNextTimer(isDisposed) == ~isDisposed

\* setTimeout(...): arms a new timer and makes this.operationTimer refer to it
\* (mutant TimerAfterSet_NotArmed: the drain does not schedule the next one)
\* clearTimeout(this.operationTimer) disarms only the timer referred to
TimerAfterSet_NotArmed == FALSE

TimerAfterSet == TRUE
OrphansAfterSet(live, orphans) == IF live THEN orphans + 1 ELSE orphans

\* mutant: a call that finds the queue empty rotates in the background when the
\* rotation interval has elapsed
ProcessFileOperations_Eager(live, orphans, isDisposed) ==
    /\ NumDrains < MaxDrains
    /\ operationPromise' = Len(tasks) + 1
    /\ IF operationQueue = <<>>
       THEN /\ tasks' = Append(tasks,
                   IF fileHandle # 0 /\ ShouldRotate(lastRotationMs)
                   THEN BeginRotate(Task0("drain"), fileHandle)
                   ELSE Task0("drain"))
            /\ operationQueue' = operationQueue
            /\ operationTimer' = IF ~ArmsNextTimer(isDisposed) THEN live ELSE TimerAfterSet
            /\ orphanTimers' = IF ~ArmsNextTimer(isDisposed) THEN orphans
                               ELSE OrphansAfterSet(live, orphans)
       ELSE /\ tasks' = Append(tasks, StartOp(operationQueue[PopIndex(operationQueue)]))
            /\ operationQueue' = PopRest(operationQueue)
            /\ operationTimer' = live
            /\ orphanTimers' = orphans

\* processFileOperations(), called with the referred timer in state `live`
\* (fired or cleared by the caller), `orphans` other timers armed, and
\* this.disposed = isDisposed.  The promise executor runs synchronously up to
\* its first await; on an empty queue it runs to its end (sets
\* this.operationPromise = undefined, re-arms the timer), and only then is the
\* new promise assigned to this.operationPromise.
ProcessFileOperations(live, orphans, isDisposed) ==
    /\ NumDrains < MaxDrains
    /\ operationPromise' = Len(tasks) + 1
    /\ IF operationQueue = <<>>
       THEN /\ tasks' = Append(tasks, Task0("drain"))
            /\ operationQueue' = operationQueue
            /\ operationTimer' = IF ~ArmsNextTimer(isDisposed) THEN live ELSE TimerAfterSet
            /\ orphanTimers' = IF ~ArmsNextTimer(isDisposed) THEN orphans
                               ELSE OrphansAfterSet(live, orphans)
       ELSE /\ tasks' = Append(tasks, StartOp(operationQueue[PopIndex(operationQueue)]))
            /\ operationQueue' = PopRest(operationQueue)
            /\ operationTimer' = live
            /\ orphanTimers' = orphans

\* ------------------------------------------------------------ public calls
\* mutant: the disposed check of saveRecord is missing
SaveRejects_Never == FALSE

\* if(this.disposed) throw new Error("Object Disposed!")
SaveRejects == disposed

\* saveRecord(record): the k-th call, with record k
SaveRecord ==
    /\ Len(saveFuture) < MaxRecords
    /\ IF SaveRejects
       THEN /\ saveFuture' = Append(saveFuture, "Object Disposed!")
            /\ UNCHANGED operationQueue
       ELSE /\ saveFuture' = Append(saveFuture, "pending")
            /\ operationQueue' = Push(operationQueue, Len(saveFuture) + 1)
    /\ UNCHANGED <<clock, config, disposed, disposePromise, tasks, disposer,
                   operationTimer, orphanTimers, operationPromise, fileState, disk,
                   flushes, disposeCalls>>

\* an armed batch timer fires: the one this.operationTimer refers to, or one
\* that was overwritten without being cleared
TimerFire ==
    /\ \E referred \in BOOLEAN :
          /\ IF referred THEN operationTimer ELSE orphanTimers > 0
          /\ ProcessFileOperations(IF referred THEN FALSE ELSE operationTimer,
                                   IF referred THEN orphanTimers ELSE orphanTimers - 1,
                                   disposed)
    /\ UNCHANGED <<clock, config, disposed, disposePromise, disposer,
                   fileState, disk, callers>>

\* flush(): waits on this.operationPromise when it is set; otherwise clears the
\* timer, calls processFileOperations() and returns this.operationPromise
\* mutant: flush() starts a drain even when one is in progress
FlushWaits_Never == FALSE

\* flush(): if(this.operationPromise) await this.operationPromise
FlushWaits == operationPromise # 0

\* mutant: flush() does not clear the batch timer before it starts a drain
TimerAfterClear_Kept == operationTimer

\* if(this.operationTimer) clearTimeout(this.operationTimer): the timer
\* this.operationTimer refers to is no longer armed
TimerAfterClear == FALSE

NoFlush == [on |-> 0, before |-> 0]

\* any number of flush() calls are made; one of them is observed in `flushes`
Flush ==
    /\ IF FlushWaits
       THEN UNCHANGED <<tasks, sched>>
       ELSE ProcessFileOperations(TimerAfterClear, orphanTimers, disposed)
    /\ \/ flushes = NoFlush /\ flushes' = [on |-> operationPromise', before |-> Len(saveFuture)]
       \/ ~FlushWaits /\ flushes' = flushes
    /\ UNCHANGED <<clock, config, disposed, disposePromise, disposer,
                   fileState, disk, saveFuture, disposeCalls>>

\* the wall clock advances
Tick ==
    /\ clock < MaxClock
    /\ clock' = clock + 1
    /\ UNCHANGED <<config, disposed, disposePromise, tasks, disposer,
                   sched, fileState, disk, callers>>

\* ------------------------------------------------ the queued write operation
\* mutant: every operation finds that it must create the file
ShouldCreateFile_Always == TRUE

\* shouldCreateFile(): fs.access(currentFile or "N/A") has answered
ShouldCreateFile == GetCurrentFilename \notin DOMAIN dir

Access(i) ==
    /\ tasks[i].pc = "access"
    /\ tasks' = [tasks EXCEPT ![i] =
          IF ShouldCreateFile
          THEN [@ EXCEPT !.pc = "cl_open", !.ret = "save", !.name = GenerateFilename]
          ELSE RotateOrWrite(@, lastRotationMs, fileHandle, firstWrite)]
    /\ UNCHANGED <<clock, config, disposed, disposePromise, disposer,
                   sched, fileState, disk, callers>>

\* createLogFile(fileName): fs.mkdir and fs.open(filePath, 'w') have answered
CreateLogFileOpen(i) ==
    /\ tasks[i].pc = "cl_open"
    /\ dir' = OpenDir(tasks[i].name)
    /\ inodes' = OpenInodes(tasks[i].name)
    /\ handles' = OpenHandles(tasks[i].name)
    /\ tasks' = [tasks EXCEPT ![i] = [@ EXCEPT !.pc = "cl_write", !.nh = Len(handles) + 1]]
    /\ UNCHANGED <<clock, config, disposed, disposePromise, disposer,
                   sched, fileState, callers>>

\* createLogFile: fileHandle.write('[') has answered and the handle is returned,
\* to saveRecord's operation (which stamps lastRotationMs and goes on to the
\* rotation check) or to rotateLog (which goes on to oldHandle?.write(']'))
CreateLogFileWrite(i) ==
    LET t == tasks[i] IN
    /\ t.pc = "cl_write"
    /\ inodes' = WriteInodes(t.nh, <<"[">>)
    /\ handles' = WriteHandles(t.nh, <<"[">>)
    /\ fileHandle' = t.nh
    /\ currentFile' = t.name
    /\ IF t.ret = "save"
       THEN /\ lastRotationMs' = clock
            /\ tasks' = [tasks EXCEPT ![i] = RotateOrWrite(t, clock, t.nh, firstWrite)]
       ELSE /\ lastRotationMs' = lastRotationMs
            /\ tasks' = [tasks EXCEPT ![i] = [t EXCEPT !.pc = "r_rbr"]]
    /\ UNCHANGED <<clock, config, disposed, disposePromise, disposer,
                   sched, firstWrite, dir, callers>>

\* rotateLog: oldHandle?.write(']') has answered
RotateCloseBracket(i) ==
    LET t == tasks[i] IN
    /\ t.pc = "r_rbr"
    /\ IF t.oh = 0
       THEN /\ tasks' = [tasks EXCEPT ![i] = [t EXCEPT !.pc = "r_close"]]
            /\ UNCHANGED <<inodes, handles>>
       ELSE IF ~CanWrite(t.oh)
       THEN /\ tasks' = [tasks EXCEPT ![i] = Failed(t)]
            /\ UNCHANGED <<inodes, handles>>
       ELSE /\ inodes' = WriteInodes(t.oh, <<"]">>)
            /\ handles' = WriteHandles(t.oh, <<"]">>)
            /\ tasks' = [tasks EXCEPT ![i] = [t EXCEPT !.pc = "r_close"]]
    /\ UNCHANGED <<clock, config, disposed, disposePromise, disposer,
                   sched, fileState, dir, callers>>

\* rotateLog: oldHandle?.close() has answered; compactLogs() calls fs.readdir
RotateCloseHandle(i) ==
    LET t == tasks[i] IN
    /\ t.pc = "r_close"
    /\ handles' = IF t.oh = 0 THEN handles ELSE CloseHandles(t.oh)
    /\ tasks' = [tasks EXCEPT ![i] = [t EXCEPT !.pc = "k_readdir"]]
    /\ UNCHANGED <<clock, config, disposed, disposePromise, disposer,
                   sched, fileState, dir, inodes, callers>>

\* -------------------------------------------------------------- compaction
\* the characters of the logger names and of the extensions in use
Chars(str) ==
    CASE str = "test" -> <<"t", "e", "s", "t">>
      [] str = "test2" -> <<"t", "e", "s", "t", "2">>
      [] str = "other" -> <<"o", "t", "h", "e", "r">>
      [] str = "json" -> <<"j", "s", "o", "n">>
      [] str = "json.gz" -> <<"j", "s", "o", "n", ".", "g", "z">>

\* the characters of the file name `${logName}.${time}.${extension}`, the
\* digits of the time taken as one character
FileNameChars(n) == Chars(n[1]) \o <<".", ToString(n[2]), ".">> \o Chars(n[3])

\* the literal text lit occurs in the characters cs at position k
OccursAt(cs, lit, k) == k + Len(lit) - 1 <= Len(cs) /\ SubSeq(cs, k, k + Len(lit) - 1) = lit

\* fileName.match(`${this.logName}.*\\.json`): an unanchored search for the
\* logger name followed, anywhere later, by ".json"
LogMatch(n) ==
    LET cs == FileNameChars(n) IN
    \E k \in 1..Len(cs) :
        /\ OccursAt(cs, Chars(LogName), k)
        /\ \E j \in (k + Len(Chars(LogName)))..Len(cs) : OccursAt(cs, <<".", "j", "s", "o", "n">>, j)

\* fileName.match('.*\\.json.gz'): ".json", any one character, "gz"
CompressMatch(n) ==
    LET cs == FileNameChars(n) IN
    \E j \in 1..Len(cs) :
        /\ OccursAt(cs, <<".", "j", "s", "o", "n">>, j)
        /\ OccursAt(cs, <<"g", "z">>, j + 6)

\* the files compactLogs() selects from the listing
CompactFiles ==
    {n \in DOMAIN dir : LogMatch(n) /\ ~CompressMatch(n) /\ n # currentFile}

\* compactLogs() returns: a public compactLogs() call is over; rotateLog stamps
\* lastRotationMs, resets firstWrite and returns the name, to its public caller
\* or to saveRecord's operation, which goes on to write the record
AfterCompact(i, t) ==
    IF t.kind = "compactLogs"
    THEN /\ tasks' = [tasks EXCEPT ![i] = Task0(t.kind)]
         /\ UNCHANGED <<lastRotationMs, firstWrite>>
    ELSE /\ lastRotationMs' = clock
         /\ firstWrite' = TRUE
         /\ tasks' = [tasks EXCEPT ![i] =
               IF t.kind = "rotateLog" THEN [Task0(t.kind) EXCEPT !.name = t.name]
               ELSE IssueWrite(t, fileHandle, TRUE)]

\* compactLogs: fs.readdir has answered; the listing is filtered and the first
\* compressLog() starts its pipeline (readdir gives no order)
CompactReaddir(i) ==
    LET t == tasks[i] IN
    /\ t.pc = "k_readdir"
    /\ IF CompactFiles = {}
       THEN AfterCompact(i, t)
       ELSE /\ \E f \in CompactFiles :
                 tasks' = [tasks EXCEPT ![i] =
                     [t EXCEPT !.pc = "k_pipeline", !.files = CompactFiles, !.cf = f]]
            /\ UNCHANGED <<lastRotationMs, firstWrite>>
    /\ UNCHANGED <<clock, config, disposed, disposePromise, disposer,
                   sched, fileHandle, currentFile, disk, callers>>

\* the directory and the inodes after content was written to a file opened
\* with createWriteStream (flags 'w')
PutDir(name) == OpenDir(name)

PutInodes(name, content) ==
    IF name \in DOMAIN dir THEN [inodes EXCEPT ![dir[name]] = content]
    ELSE Append(inodes, content)

\* compressLog: pipeline(source, gzip, destination) has answered.  With the
\* source missing it rejects (compactLogs and its caller reject with it); the
\* destination stream may have opened, and so emptied, the .gz file by then.
CompressPipeline(i) ==
    LET t == tasks[i] IN
    /\ t.pc = "k_pipeline"
    /\ IF t.cf \in DOMAIN dir
       THEN /\ dir' = PutDir(GzName(t.cf))
            /\ inodes' = PutInodes(GzName(t.cf), Gzip(inodes[dir[t.cf]]))
            /\ tasks' = [tasks EXCEPT ![i] = [t EXCEPT !.pc = "k_unlink"]]
       ELSE /\ tasks' = [tasks EXCEPT ![i] = Failed(t)]
            /\ \E opened \in BOOLEAN :
                 IF opened
                 THEN /\ dir' = PutDir(GzName(t.cf))
                      /\ inodes' = PutInodes(GzName(t.cf), <<>>)
                 ELSE UNCHANGED <<dir, inodes>>
    /\ UNCHANGED <<clock, config, disposed, disposePromise, disposer,
                   sched, fileState, handles, callers>>

\* compressLog: fs.unlink(source) has answered; the loop goes to the next file
CompressUnlink(i) ==
    LET t == tasks[i]
        rest == t.files \ {t.cf}
    IN
    /\ t.pc = "k_unlink"
    /\ IF t.cf \notin DOMAIN dir
       THEN /\ tasks' = [tasks EXCEPT ![i] = Failed(t)]
            /\ UNCHANGED <<dir, lastRotationMs, firstWrite>>
       ELSE /\ dir' = [n \in DOMAIN dir \ {t.cf} |-> dir[n]]
            /\ IF rest = {}
               THEN AfterCompact(i, t)
               ELSE /\ \E f \in rest :
                         tasks' = [tasks EXCEPT ![i] =
                             [t EXCEPT !.pc = "k_pipeline", !.files = rest, !.cf = f]]
                    /\ UNCHANGED <<lastRotationMs, firstWrite>>
    /\ UNCHANGED <<clock, config, disposed, disposePromise, disposer,
                   sched, fileHandle, currentFile, inodes, handles, callers>>

\* ------------------------------------------------- the record write, the loop
\* mutant: one completed write resolves every waiting caller
Settle_All(futures, rec) ==
    [r \in DOMAIN futures |-> IF futures[r] = "pending" THEN "resolved" ELSE futures[r]]

\* resolve(); resolveClientAwait(): the future of the operation's own record
Settle(futures, rec) == [futures EXCEPT ![rec] = "resolved"]

\* mutant: the drain loop ends after one operation
LoopEnds_Always == TRUE

\* while(operation != null): the pop after an operation returned undefined
LoopEnds == operationQueue = <<>>

\* The operation's fileHandle?.write(...) has answered: firstWrite = false, the
\* operation's promise and its caller's future resolve, and the drain loop pops
\* the next operation, or, the queue being empty, resolves the drain's promise,
\* sets this.operationPromise = undefined and (unless disposed) arms the timer.
Write(i) ==
    LET t == tasks[i] IN
    /\ t.pc = "write"
    /\ IF t.wh # 0 /\ ~CanWrite(t.wh)
       THEN /\ tasks' = [tasks EXCEPT ![i] = Failed(t)]
            /\ UNCHANGED <<sched, firstWrite, inodes, handles, saveFuture>>
       ELSE /\ inodes' = IF t.wh = 0 THEN inodes ELSE WriteInodes(t.wh, t.chunk)
            /\ handles' = IF t.wh = 0 THEN handles ELSE WriteHandles(t.wh, t.chunk)
            /\ firstWrite' = FALSE
            /\ saveFuture' = Settle(saveFuture, t.rec)
            /\ IF LoopEnds
               THEN /\ tasks' = [tasks EXCEPT ![i] = Task0(t.kind)]
                    /\ operationPromise' = 0
                    /\ operationTimer' = IF ~ArmsNextTimer(disposed) THEN operationTimer ELSE TimerAfterSet
                    /\ orphanTimers' = IF ~ArmsNextTimer(disposed) THEN orphanTimers
                                       ELSE OrphansAfterSet(operationTimer, orphanTimers)
                    /\ UNCHANGED operationQueue
               ELSE /\ tasks' = [tasks EXCEPT ![i] =
                          StartOp(operationQueue[PopIndex(operationQueue)])]
                    /\ operationQueue' = PopRest(operationQueue)
                    /\ UNCHANGED <<operationPromise, operationTimer, orphanTimers>>
    /\ UNCHANGED <<clock, config, disposed, disposePromise, disposer,
                   fileHandle, currentFile, lastRotationMs, dir, flushes, disposeCalls>>

\* ------------------------------------------------------------------ disposal
Disposer0 == [pc |-> "idle", on |-> 0, h |-> 0]

\* if(this.operationPromise == null && this.operationQueue.length > 0)
DisposeStartsDrain == operationPromise = 0 /\ operationQueue # <<>>

\* if(this.fileHandle) await this.fileHandle.write(']') ... else resolve()
DisposeFinalize ==
    IF fileHandle # 0 THEN [pc |-> "rbr", on |-> 0, h |-> fileHandle]
    ELSE [Disposer0 EXCEPT !.pc = "done"]

\* mutant: the early return of disposeAsync is missing, a repeated call runs
\* the executor again
DisposeRepeated_Rerun ==
    /\ disposeCalls = "none"
    /\ disposeCalls' = "promise"
    /\ IF DisposeStartsDrain
       THEN ProcessFileOperations(FALSE, orphanTimers, TRUE)
       ELSE /\ operationTimer' = FALSE
            /\ UNCHANGED <<tasks, operationQueue, orphanTimers, operationPromise>>
    /\ disposer' = IF operationPromise' # 0
                   THEN [pc |-> "await", on |-> operationPromise', h |-> 0]
                   ELSE DisposeFinalize
    /\ disposePromise' = IF disposer'.pc = "done" THEN "resolved" ELSE "pending"
    /\ UNCHANGED <<clock, config, disposed, fileState, disk, saveFuture,
                   flushes>>

\* disposeAsync() when disposed: return this.disposePromise.  Such calls change
\* nothing; one of them is observed in disposeCalls.
DisposeRepeated ==
    /\ disposeCalls = "none"
    /\ disposeCalls' = IF disposePromise = "undefined" THEN "undefined" ELSE "promise"
    /\ UNCHANGED <<clock, config, disposed, disposePromise, tasks,
                   disposer, sched, fileState, disk, saveFuture, flushes>>

\* disposeAsync() when not disposed: sets disposed, clears the timer and runs
\* the executor up to its first await
DisposeFirst ==
    /\ disposed' = TRUE
    /\ IF DisposeStartsDrain
       THEN ProcessFileOperations(FALSE, orphanTimers, TRUE)
       ELSE /\ operationTimer' = FALSE
            /\ UNCHANGED <<tasks, operationQueue, orphanTimers, operationPromise>>
    /\ disposer' = IF operationPromise' # 0
                   THEN [pc |-> "await", on |-> operationPromise', h |-> 0]
                   ELSE DisposeFinalize
    /\ disposePromise' = IF disposer'.pc = "done" THEN "resolved" ELSE "pending"
    /\ UNCHANGED <<clock, config, fileState, disk, callers>>

DisposeAsync == IF disposed THEN DisposeRepeated ELSE DisposeFirst

\* disposeAsync: the awaited this.operationPromise has resolved
DisposeAwait ==
    /\ disposer.pc = "await"
    /\ tasks[disposer.on].pc = "done"
    /\ disposer' = DisposeFinalize
    /\ disposePromise' = IF disposer'.pc = "done" THEN "resolved" ELSE disposePromise
    /\ UNCHANGED <<clock, config, disposed, tasks, sched, fileState, disk,
                   callers>>

\* disposeAsync: this.fileHandle.write(']') has answered (a rejection is lost
\* in the async executor); this.fileHandle.close() is called
DisposeCloseBracket ==
    /\ disposer.pc = "rbr"
    /\ IF CanWrite(disposer.h)
       THEN /\ inodes' = WriteInodes(disposer.h, <<"]">>)
            /\ handles' = WriteHandles(disposer.h, <<"]">>)
            /\ disposer' = [disposer EXCEPT !.pc = "close", !.h = fileHandle]
       ELSE /\ disposer' = [Disposer0 EXCEPT !.pc = "failed"]
            /\ UNCHANGED <<inodes, handles>>
    /\ UNCHANGED <<clock, config, disposed, disposePromise, tasks, sched,
                   fileState, dir, callers>>

\* disposeAsync: this.fileHandle.close() has answered; resolve()
DisposeCloseHandle ==
    /\ disposer.pc = "close"
    /\ handles' = CloseHandles(disposer.h)
    /\ disposer' = [Disposer0 EXCEPT !.pc = "done"]
    /\ disposePromise' = "resolved"
    /\ UNCHANGED <<clock, config, disposed, tasks, sched, fileState, dir,
                   inodes, callers>>

\* ------------------------------------------- public rotateLog / compactLogs
RotateLog ==
    /\ NumPublic < MaxPublic
    /\ tasks' = Append(tasks, BeginRotate(Task0("rotateLog"), fileHandle))
    /\ UNCHANGED <<clock, config, disposed, disposePromise, disposer,
                   sched, fileState, disk, callers>>

CompactLogs ==
    /\ NumPublic < MaxPublic
    /\ tasks' = Append(tasks, [Task0("compactLogs") EXCEPT !.pc = "k_readdir"])
    /\ UNCHANGED <<clock, config, disposed, disposePromise, disposer,
                   sched, fileState, disk, callers>>

\* --------------------------------------------------------------- I/O errors
\* the awaited fs call of chain i rejects (EIO, ENOSPC, EACCES ...) without
\* having had an effect.  fs.access is left out: shouldCreateFile catches its
\* rejection.  Nothing in the class catches the others.
IoError(i) ==
    /\ tasks[i].pc \in {"cl_open", "cl_write", "r_rbr", "r_close", "k_readdir",
                         "k_pipeline", "k_unlink", "write"}
    /\ tasks' = [tasks EXCEPT ![i] = Failed(tasks[i])]
    /\ UNCHANGED <<clock, config, disposed, disposePromise, disposer,
                   sched, fileState, disk, callers>>

\* ----------------------------------------------------------------- factory
\* a JavaScript value of chroniclerProperties, by its type
Undefined == [type |-> "undefined", val |-> 0]
Null == [type |-> "null", val |-> 0]
Num(n) == [type |-> "number", val |-> n]
Str(str) == [type |-> "string", val |-> str]
Obj(o) == [type |-> "object", val |-> o]

\* mutant: an empty string counts as given
JsTruthy_EmptyString(v) ==
    CASE v.type = "undefined" -> FALSE
      [] v.type = "null" -> FALSE
      [] v.type = "number" -> v.val # 0
      [] v.type = "string" -> TRUE
      [] v.type = "object" -> TRUE

\* !v is false
JsTruthy(v) ==
    CASE v.type = "undefined" -> FALSE
      [] v.type = "null" -> FALSE
      [] v.type = "number" -> v.val # 0
      [] v.type = "string" -> v.val # ""
      [] v.type = "object" -> TRUE

\* isRotationOptions(options)
IsRotationOptions(v) ==
    IF v.type \in {"undefined", "null"} THEN FALSE
    ELSE IF v.type # "object" THEN FALSE
    ELSE TRUE

NoOptions == [logDirectory |-> Undefined, logName |-> Undefined, rotationSettings |-> Undefined]

\* the chronicler was constructed directly, not by the factory
NoFactory == [props |-> NoOptions, result |-> "none", constructed |-> 0, options |-> NoOptions]

\* Promise.reject(new Error(message))
Reject(message) == [factory EXCEPT !.result = message]

\* buildChronicler(description), on description.chroniclerProperties
BuildChronicler ==
    LET props == factory.props IN
    /\ factory.result = "none"
    /\ factory' =
          IF ~JsTruthy(props.logDirectory)
          THEN Reject("Missing required logDirectory property for JsonChronicler")
          ELSE IF ~JsTruthy(props.logName)
          THEN Reject("Missing required logName property for JsonChronicler")
          ELSE IF ~JsTruthy(props.rotationSettings)
          THEN Reject("Missing required rotationSettings property for JsonChronicler")
          ELSE IF ~IsRotationOptions(props.rotationSettings)
          THEN Reject("rotationSettings does not conform to RotationOptions interface")
          ELSE [factory EXCEPT !.result = "JsonChronicler", !.constructed = @ + 1,
                               !.options = [logDirectory |-> props.logDirectory,
                                            logName |-> props.logName,
                                            rotationSettings |-> props.rotationSettings]]
    /\ IF factory'.result = "JsonChronicler"
       THEN /\ rotationSettings' = props.rotationSettings.val
            /\ rotationIntervalMs' = GetMsFromRotationOptions(props.rotationSettings.val)
       ELSE UNCHANGED <<rotationSettings, rotationIntervalMs>>
    /\ UNCHANGED <<clock, mutated, disposed, disposePromise, tasks, disposer,
                   sched, fileState, disk, callers>>

\* ------------------------------------------------------ the caller's records
\* the records saveRecord accepted (queued)
Accepted == {r \in DOMAIN saveFuture : saveFuture[r] # "Object Disposed!"}

\* the caller changes the object it passed to an accepted saveRecord(record)
MutateRecord ==
    /\ \E r \in Accepted \ mutated : mutated' = mutated \cup {r}
    /\ UNCHANGED <<clock, rotationSettings, rotationIntervalMs, factory, disposed,
                   disposePromise, tasks, disposer, sched, fileState, disk, callers>>

\* ------------------------------------------------------------ specification
\* the fields of a chronicler after `new JsonChronicler(options)`, the options
\* and the log directory aside
Constructed ==
    /\ disposed = FALSE
    /\ firstWrite = TRUE
    /\ fileHandle = 0
    /\ currentFile = UndefinedName
    /\ lastRotationMs = NoTime
    /\ operationQueue = <<>>
    /\ operationTimer = TRUE
    /\ orphanTimers = 0
    /\ operationPromise = 0
    /\ disposePromise = "undefined"
    /\ tasks = <<>>
    /\ disposer = Disposer0
    /\ handles = <<>>
    /\ saveFuture = <<>>
    /\ flushes = NoFlush
    /\ disposeCalls = "none"

\* the log directory does not exist yet, or is empty
EmptyDirectory ==
    /\ dir = [n \in {} |-> 0]
    /\ inodes = <<>>

\* the state after `new JsonChronicler(options)` on an empty log directory
Init ==
    /\ clock = 0
    /\ rotationSettings \in
           {[x \in {"milliseconds"} |-> ms] : ms \in RotationIntervals}
    /\ rotationIntervalMs = GetMsFromRotationOptions(rotationSettings)
    /\ factory = NoFactory
    /\ Constructed
    /\ mutated = {}
    /\ EmptyDirectory

\* saveRecord, the timer, flush and disposeAsync; no public rotateLog/compactLogs
Next ==
    \/ SaveRecord
    \/ TimerFire
    \/ Flush
    \/ Tick
    \/ DisposeAsync
    \/ DisposeAwait
    \/ DisposeCloseBracket
    \/ DisposeCloseHandle
    \/ \E i \in DOMAIN tasks : Access(i)
    \/ \E i \in DOMAIN tasks : CreateLogFileOpen(i)
    \/ \E i \in DOMAIN tasks : CreateLogFileWrite(i)
    \/ \E i \in DOMAIN tasks : RotateCloseBracket(i)
    \/ \E i \in DOMAIN tasks : RotateCloseHandle(i)
    \/ \E i \in DOMAIN tasks : CompactReaddir(i)
    \/ \E i \in DOMAIN tasks : CompressPipeline(i)
    \/ \E i \in DOMAIN tasks : CompressUnlink(i)
    \/ \E i \in DOMAIN tasks : Write(i)

Spec == Init /\ [][Next]_vars

\* the same with public rotateLog() and compactLogs() calls made after the
\* future of disposeAsync() has resolved
NextAfterDispose ==
    \/ Next
    \/ disposePromise = "resolved" /\ RotateLog
    \/ disposePromise = "resolved" /\ CompactLogs

SpecAfterDispose == Init /\ [][NextAfterDispose]_vars

\* no async chain is running: every drain and public call has ended
NoneRunning == \A i \in DOMAIN tasks : tasks[i].pc \in {"done", "failed"}

\* a public rotateLog() or compactLogs() call has not ended yet
PublicRunning ==
    \E i \in DOMAIN tasks : tasks[i].kind # "drain" /\ tasks[i].pc \notin {"done", "failed"}

\* a caller that calls rotateLog() before disposal, while nothing is queued
\* or running, and makes no other call until rotateLog() has ended
NextRotate ==
    \/ ~PublicRunning /\ SaveRecord
    \/ ~PublicRunning /\ Flush
    \/ ~PublicRunning /\ DisposeAsync
    \/ ~disposed /\ NoneRunning /\ operationQueue = <<>> /\ RotateLog
    \/ TimerFire
    \/ Tick
    \/ DisposeAwait
    \/ DisposeCloseBracket
    \/ DisposeCloseHandle
    \/ \E i \in DOMAIN tasks : Access(i)
    \/ \E i \in DOMAIN tasks : CreateLogFileOpen(i)
    \/ \E i \in DOMAIN tasks : CreateLogFileWrite(i)
    \/ \E i \in DOMAIN tasks : RotateCloseBracket(i)
    \/ \E i \in DOMAIN tasks : RotateCloseHandle(i)
    \/ \E i \in DOMAIN tasks : CompactReaddir(i)
    \/ \E i \in DOMAIN tasks : CompressPipeline(i)
    \/ \E i \in DOMAIN tasks : CompressUnlink(i)
    \/ \E i \in DOMAIN tasks : Write(i)

SpecRotate == Init /\ [][NextRotate]_vars

\* the same as Spec with I/O errors
NextIoError ==
    \/ Next
    \/ \E i \in DOMAIN tasks : IoError(i)

SpecIoError == Init /\ [][NextIoError]_vars

\* a log directory shared with other loggers, found at construction: an
\* archive this logger left at time 0 in an earlier run, an archive of the
\* logger "test2" and an archive of the logger "other", each a closed array
\* of one record
LeftoverFiles == {<<LogName, 0, "json">>, <<"test2", 0, "json">>, <<"other", 0, "json">>}

LeftoverContent == <<"[", Stringify(0), "]">>

InitShared ==
    /\ clock = 1
    /\ rotationSettings \in
           {[x \in {"milliseconds"} |-> ms] : ms \in RotationIntervals}
    /\ rotationIntervalMs = GetMsFromRotationOptions(rotationSettings)
    /\ factory = NoFactory
    /\ Constructed
    /\ mutated = {}
    /\ dir = (<<LogName, 0, "json">> :> 1) @@ (<<"test2", 0, "json">> :> 2)
                @@ (<<"other", 0, "json">> :> 3)
    /\ inodes = <<LeftoverContent, LeftoverContent, LeftoverContent>>

\* a caller that, besides saving and disposing, calls compactLogs() before
\* disposal while nothing is queued or running and makes no other call until
\* it has ended; any awaited fs call may reject
NextShared ==
    \/ ~PublicRunning /\ SaveRecord
    \/ ~PublicRunning /\ Flush
    \/ ~PublicRunning /\ DisposeAsync
    \/ ~disposed /\ NoneRunning /\ operationQueue = <<>> /\ CompactLogs
    \/ TimerFire
    \/ Tick
    \/ DisposeAwait
    \/ DisposeCloseBracket
    \/ DisposeCloseHandle
    \/ \E i \in DOMAIN tasks : Access(i)
    \/ \E i \in DOMAIN tasks : CreateLogFileOpen(i)
    \/ \E i \in DOMAIN tasks : CreateLogFileWrite(i)
    \/ \E i \in DOMAIN tasks : RotateCloseBracket(i)
    \/ \E i \in DOMAIN tasks : RotateCloseHandle(i)
    \/ \E i \in DOMAIN tasks : CompactReaddir(i)
    \/ \E i \in DOMAIN tasks : CompressPipeline(i)
    \/ \E i \in DOMAIN tasks : CompressUnlink(i)
    \/ \E i \in DOMAIN tasks : Write(i)
    \/ \E i \in DOMAIN tasks : IoError(i)

SpecShared == InitShared /\ [][NextShared]_vars

\* the same as Spec with a public compactLogs() call made at any time
NextCompact ==
    \/ Next
    \/ CompactLogs

SpecCompact == Init /\ [][NextCompact]_vars

\* a compaction pass is running
Compacting ==
    \E i \in DOMAIN tasks : tasks[i].pc \in {"k_readdir", "k_pipeline", "k_unlink"}

\* the same as Spec with a public compactLogs() call made while the pass of a
\* rotation is running
NextPasses ==
    \/ Next
    \/ Compacting /\ CompactLogs

SpecPasses == Init /\ [][NextPasses]_vars

\* ------------------------------------------------------- the factory alone
\* the values tried for each property of chroniclerProperties
DirectoryValues == {Undefined, Str(""), Str("./logs"), Num(5)}

NameValues == {Undefined, Str(""), Str("test")}

SettingsValues ==
    {Undefined, Null, Num(0), Num(5), Str("daily"), Obj([x \in {} |-> 0]),
     Obj([x \in {"seconds"} |-> 300])}

\* a factory about to be given a description; no chronicler exists yet (the
\* chronicler's variables hold what a constructor would start from)
InitFactory ==
    /\ clock = 0
    /\ rotationSettings = [x \in {} |-> 0]
    /\ rotationIntervalMs = 0
    /\ \E d \in DirectoryValues, n \in NameValues, rs \in SettingsValues :
          factory = [NoFactory EXCEPT
                        !.props = [logDirectory |-> d, logName |-> n, rotationSettings |-> rs]]
    /\ Constructed
    /\ mutated = {}
    /\ EmptyDirectory

NextFactory == BuildChronicler

SpecFactory == InitFactory /\ [][NextFactory]_vars

\* ---------------------------------------------------- commit without flush
\* an awaited fs call of some chain answers
ChainStep ==
    \E i \in DOMAIN tasks :
        \/ Access(i)
        \/ CreateLogFileOpen(i)
        \/ CreateLogFileWrite(i)
        \/ RotateCloseBracket(i)
        \/ RotateCloseHandle(i)
        \/ CompactReaddir(i)
        \/ CompressPipeline(i)
        \/ CompressUnlink(i)
        \/ Write(i)

\* a caller that only saves, and does so while the drains looked at are not
\* used up; never flush(), never disposeAsync(), no I/O error
NextTimerOnly ==
    \/ NumDrains < MaxDrains /\ SaveRecord
    \/ TimerFire
    \/ Tick
    \/ \E i \in DOMAIN tasks : Access(i)
    \/ \E i \in DOMAIN tasks : CreateLogFileOpen(i)
    \/ \E i \in DOMAIN tasks : CreateLogFileWrite(i)
    \/ \E i \in DOMAIN tasks : RotateCloseBracket(i)
    \/ \E i \in DOMAIN tasks : RotateCloseHandle(i)
    \/ \E i \in DOMAIN tasks : CompactReaddir(i)
    \/ \E i \in DOMAIN tasks : CompressPipeline(i)
    \/ \E i \in DOMAIN tasks : CompressUnlink(i)
    \/ \E i \in DOMAIN tasks : Write(i)

\* an armed timer eventually fires and an fs call eventually answers
SpecTimerOnly ==
    Init /\ [][NextTimerOnly]_vars /\ WF_vars(TimerFire) /\ WF_vars(ChainStep)

\* the drain loop is between the first and the last step of an operation
DrainRunning ==
    \E i \in DOMAIN tasks : tasks[i].kind = "drain" /\ tasks[i].pc \notin {"done", "failed"}

\* a caller that calls rotateLog() while the drain loop is running an
\* operation, never flush(), and disposeAsync() only when nothing is queued or
\* running
NextOverlap ==
    \/ NextTimerOnly
    \/ DrainRunning /\ RotateLog
    \/ NoneRunning /\ operationQueue = <<>> /\ DisposeAsync
    \/ DisposeAwait
    \/ DisposeCloseBracket
    \/ DisposeCloseHandle

SpecOverlap == Init /\ [][NextOverlap]_vars

\* the same as Spec with callers that change their records after saving them
NextMutate ==
    \/ Next
    \/ MutateRecord

SpecMutate == Init /\ [][NextMutate]_vars

\* Something outside the chronicler removes the active file from the
\* directory: the next fs.access in shouldCreateFile() rejects.  The handle the
\* chronicler holds stays open on the removed file.
ExternalUnlink ==
    /\ currentFile \in DOMAIN dir
    /\ dir' = [n \in DOMAIN dir \ {currentFile} |-> dir[n]]
    /\ UNCHANGED <<clock, config, disposed, disposePromise, tasks, disposer,
                   sched, fileState, inodes, handles, callers>>

\* the same as Spec with the active file removed from outside at any time
NextDeleted ==
    \/ Next
    \/ ExternalUnlink

SpecDeleted == Init /\ [][NextDeleted]_vars

\* a caller that calls rotateLog() once a file is active and nothing is queued
\* or running, and calls disposeAsync() before rotateLog() has ended; never
\* flush()
NextRotateDispose ==
    \/ NextTimerOnly
    \/ ~disposed /\ NoneRunning /\ operationQueue = <<>> /\ fileHandle # 0 /\ RotateLog
    \/ PublicRunning /\ DisposeAsync
    \/ DisposeAwait
    \/ DisposeCloseBracket
    \/ DisposeCloseHandle

SpecRotateDispose == Init /\ [][NextRotateDispose]_vars

\* ---------------------------------------------- the rotation options alone
\* every RotationOptions value with components in 0..MaxComponent
AllRotationOptions == UNION {[D -> 0..MaxComponent] : D \in SUBSET Components}

\* `new JsonChronicler(options)` for every such options.rotationSettings
InitOptions ==
    /\ clock = 0
    /\ rotationSettings \in AllRotationOptions
    /\ rotationIntervalMs = GetMsFromRotationOptions(rotationSettings)
    /\ factory = NoFactory
    /\ Constructed
    /\ mutated = {}
    /\ EmptyDirectory

NextOptions == Tick

SpecOptions == InitOptions /\ [][NextOptions]_vars

\* ----------------------------------------------- the rotation policy alone
\* the instants looked at: around each whole second up to MaxSeconds
PolicyTimes == {sec * 1000 + d : sec \in 0..MaxSeconds, d \in {0, 1, 999}}

\* intervals of 0 ms, 1 ms, 1 s and 1001 ms
PolicySettings ==
    {[x \in {} |-> 0], [x \in {"milliseconds"} |-> 1], [x \in {"seconds"} |-> 1],
     [x \in {"seconds", "milliseconds"} |-> 1]}

InitPolicy ==
    /\ clock = 0
    /\ rotationSettings \in PolicySettings
    /\ rotationIntervalMs = GetMsFromRotationOptions(rotationSettings)
    /\ factory = NoFactory
    /\ Constructed
    /\ mutated = {}
    /\ EmptyDirectory

\* time passes
PolicyTick ==
    /\ \E t \in PolicyTimes : t > clock /\ clock' = t
    /\ UNCHANGED <<config, disposed, disposePromise, tasks, disposer,
                   sched, fileState, disk, callers>>

\* this.lastRotationMs = new Date().getTime(): a file is created or rotated
PolicyStamp ==
    /\ lastRotationMs' = clock
    /\ UNCHANGED <<clock, config, disposed, disposePromise, tasks, disposer, sched,
                   firstWrite, fileHandle, currentFile, disk, callers>>

NextPolicy ==
    \/ PolicyTick
    \/ PolicyStamp

SpecPolicy == InitPolicy /\ [][NextPolicy]_vars

\* ================================================================== claims
Range(seq) == {seq[i] : i \in DOMAIN seq}

\* the inodes of the archive files the chronicler opened
ArchiveInodes == {handles[h].ino : h \in DOMAIN handles}

Written(r) == \E ino \in ArchiveInodes : Stringify(r) \in Range(inodes[ino])

\* the number of times record r occurs in the archive files
Occurrences(r) ==
    Cardinality({p \in UNION {{<<ino, i>> : i \in DOMAIN inodes[ino]} : ino \in ArchiveInodes} :
                    inodes[p[1]][p[2]] = Stringify(r)})

IsRecordText(x) == x \in {Stringify(r) : r \in DOMAIN saveFuture}

\* '[' , records separated by ',\n' with no leading separator, one ']'
WellFormedClosed(c) ==
    /\ Len(c) >= 2
    /\ c[1] = "["
    /\ c[Len(c)] = "]"
    /\ Len(c) = 2 \/ Len(c) % 2 = 1
    /\ \A i \in 2..(Len(c) - 1) :
          IF i % 2 = 0 THEN IsRecordText(c[i]) ELSE c[i] = ",\n"

\* a JSON array whose elements are exactly the serializations of the records R
IsArrayOf(c, R) ==
    /\ WellFormedClosed(c)
    /\ Len(c) = 2 * Cardinality(R) + 1
    /\ {c[2 * k] : k \in 1..Cardinality(R)} = {Stringify(r) : r \in R}

\* the observed flush() call has resolved
FlushResolved == flushes.on # 0 /\ tasks[flushes.on].pc = "done"

\* C1: when the disposal future has resolved, every record accepted before
\* disposeAsync was called has been written to an archive file and its
\* saveRecord future has resolved (saveRecord accepts nothing after the call)
C1_FullDrainOnDisposal ==
    disposePromise = "resolved" =>
        \A r \in Accepted : saveFuture[r] = "resolved" /\ Written(r)

\* C2: within every file, records appear in the order of their saveRecord calls
C2_SubmissionOrder ==
    \A ino \in ArchiveInodes : \A i, j \in DOMAIN inodes[ino] : \A a, b \in Accepted :
        (i < j /\ inodes[ino][i] = Stringify(a) /\ inodes[ino][j] = Stringify(b)) => a < b

\* C3: a saveRecord future is resolved only if its own record's bytes are in an
\* archive file (not at enqueue time, not by another record's write)
C3_ResolvedOnlyAfterOwnWrite ==
    \A r \in DOMAIN saveFuture : saveFuture[r] = "resolved" => Written(r)

C3_Witness ==
    \E r, q \in DOMAIN saveFuture :
        /\ saveFuture[r] = "resolved" /\ Written(r)
        /\ saveFuture[q] = "pending" /\ ~Written(q)

\* C4: when a flush() call has resolved, no saveRecord call made before it is
\* still pending
C4_FlushSettlesEarlierSaves ==
    FlushResolved => \A r \in 1..flushes.before : saveFuture[r] # "pending"

\* C5: a saveRecord call made once disposed is true rejects with "Object
\* Disposed!" and leaves the queue, the handle, currentFile, firstWrite,
\* lastRotationMs and the files unchanged
C5_RejectsAfterDisposal ==
    [][(disposed /\ Len(saveFuture') > Len(saveFuture)) =>
          /\ saveFuture'[Len(saveFuture')] = "Object Disposed!"
          /\ UNCHANGED <<operationQueue, fileState, disk>>]_vars

C5_Witness ==
    \E r \in DOMAIN saveFuture : saveFuture[r] = "Object Disposed!" /\ Accepted # {}

\* C6: N >= 1 records accepted, no second file opened, disposal resolved: the
\* directory holds one file, '[' + the N records separated by ',\n' + ']'
C6_SingleFileIsArray ==
    (disposePromise = "resolved" /\ Accepted # {} /\ Len(handles) <= 1) =>
        /\ Cardinality(DOMAIN dir) = 1
        /\ \A n \in DOMAIN dir : IsArrayOf(inodes[dir[n]], Accepted)

\* C7: every file retired by rotation or disposal is '[' + records separated by
\* ',\n' + one ']', and once disposal has resolved every accepted record occurs
\* exactly once over all files
C7_RetiredFilesWellFormedNoLoss ==
    /\ \A h \in DOMAIN handles :
          ~handles[h].open => WellFormedClosed(inodes[handles[h].ino])
    /\ disposePromise = "resolved" => \A r \in Accepted : Occurrences(r) = 1

\* a step that opens a file or writes through a file handle
HandleActivity ==
    \/ Len(handles') # Len(handles)
    \/ \E h \in DOMAIN handles : handles'[h].pos # handles[h].pos

\* a step of disposeAsync's executor or of the drain it is waiting for
DisposalOwnStep ==
    \/ disposer' # disposer
    \/ disposer.pc = "await" /\ tasks'[disposer.on] # tasks[disposer.on]

\* C8: disposed never reverts, and once it is true no file is created and no
\* write goes through a file handle except by the drain disposeAsync waits for
\* and by disposeAsync's closing ']'
C8_DisposedIsTerminal ==
    [][/\ disposed => disposed'
       /\ (disposed /\ HandleActivity) => DisposalOwnStep]_vars

\* C9: a repeated disposeAsync() call returns the first call's promise and
\* changes nothing (no drain started, no write, no close); no archive file ever
\* holds more than one ']'
C9_DisposeIdempotent ==
    /\ [][disposeCalls' # disposeCalls =>
             /\ disposeCalls' = "promise"
             /\ UNCHANGED <<disposed, disposePromise, tasks, disposer, sched,
                            fileState, disk>>]_vars
    /\ [](\A ino \in ArchiveInodes :
             Cardinality({i \in DOMAIN inodes[ino] : inodes[ino][i] = "]"}) <= 1)

C9_Witness ==
    /\ disposeCalls = "promise"
    /\ disposePromise = "resolved"
    /\ fileHandle # 0
    /\ ~handles[fileHandle].open

\* the rotation check of an operation that found its file: overdue means rotate
C10_Decision ==
    \A i \in DOMAIN tasks :
        (/\ tasks[i].pc = "access"
         /\ tasks'[i].pc # "access"
         /\ ~ShouldCreateFile
         /\ lastRotationMs # NoTime
         /\ clock - lastRotationMs > rotationIntervalMs)
        => /\ tasks'[i].pc = "cl_open"
           /\ tasks'[i].ret = "rotate"
           /\ tasks'[i].name # currentFile

\* the state in which the future of an operation that rotated resolves
C10_Effect ==
    \A i \in DOMAIN tasks :
        (/\ tasks[i].kind = "drain"
         /\ tasks[i].pc = "write"
         /\ tasks[i].ret = "rotate"
         /\ saveFuture[tasks[i].rec] = "pending"
         /\ saveFuture'[tasks[i].rec] = "resolved")
        => /\ tasks[i].oh # 0
           /\ LET old == handles[tasks[i].oh].name
                  new == tasks[i].name
              IN  /\ currentFile' = new
                  /\ new # old
                  /\ new \in DOMAIN dir'
                  /\ inodes'[dir'[new]] = <<"[", tasks[i].str>>
                  /\ GzName(old) \in DOMAIN dir'
                  /\ old \notin DOMAIN dir'

\* C10: an operation that finds more than rotationIntervalMs elapsed since
\* lastRotationMs rotates: a file of another name becomes active and receives
\* the record as its first element, and when the record's future resolves the
\* previous file exists as <oldname>.gz and its plaintext is gone
C10_RotatesAtNextWrite == [][C10_Decision /\ C10_Effect]_vars

C10_Witness ==
    /\ \E n \in DOMAIN dir : n[3] = "json.gz"
    /\ currentFile \in DOMAIN dir
    /\ Len(inodes[dir[currentFile]]) = 2
    /\ \E r \in DOMAIN saveFuture :
          saveFuture[r] = "resolved" /\ inodes[dir[currentFile]][2] = Stringify(r)

\* the value of a component of the options, 0 when it is absent
ComponentValue(options, x) == IF x \in DOMAIN options THEN options[x] ELSE 0

\* C19: the rotation interval computed from the options is days*86400000 +
\* hours*3600000 + minutes*60000 + seconds*1000 + milliseconds over the
\* components that are present, an absent component counting as 0.
C19_IntervalIsWeightedSum ==
    rotationIntervalMs =
          ComponentValue(rotationSettings, "days") * 24 * 60 * 60 * 1000
        + ComponentValue(rotationSettings, "hours") * 60 * 60 * 1000
        + ComponentValue(rotationSettings, "minutes") * 60 * 1000
        + ComponentValue(rotationSettings, "seconds") * 1000
        + ComponentValue(rotationSettings, "milliseconds")

\* options with some components absent, one zero and the others positive
C19_Witness ==
    /\ DOMAIN rotationSettings = {"days", "hours", "seconds"}
    /\ rotationSettings.days = 2
    /\ rotationSettings.hours = 1
    /\ rotationSettings.seconds = 0
    /\ rotationIntervalMs = 176400000

\* C20: shouldRotate() is true exactly when timeTillRotation() < 0, that is
\* when the clock is strictly past lastRotationMs + rotationIntervalMs (false
\* at equality); before any file has been created timeTillRotation() is
\* floor(rotationIntervalMs / 1000) and shouldRotate() is false.
C20_RotationPolicy ==
    /\ ShouldRotate(lastRotationMs) <=> TimeTillRotation(lastRotationMs) < 0
    /\ ShouldRotate(lastRotationMs) <=>
           (lastRotationMs # NoTime /\ clock > lastRotationMs + rotationIntervalMs)
    /\ lastRotationMs = NoTime =>
           /\ TimeTillRotation(lastRotationMs) * 1000 <= rotationIntervalMs
           /\ rotationIntervalMs < (TimeTillRotation(lastRotationMs) + 1) * 1000
           /\ ~ShouldRotate(lastRotationMs)

\* a file stamped at a whole second, looked at 1 ms after a 1 s interval ran out
C20_Witness ==
    /\ lastRotationMs # NoTime
    /\ rotationIntervalMs = 1000
    /\ clock = lastRotationMs + rotationIntervalMs + 1
    /\ ShouldRotate(lastRotationMs)

\* the public rotateLog() call i resolves in this step
RotateLogResolves(i) ==
    /\ tasks[i].kind = "rotateLog"
    /\ tasks[i].pc \notin {"done", "failed"}
    /\ tasks'[i].pc = "done"

\* C11: when rotateLog() resolves, the name it returns is the active file's
\* name and differs from the name active before the call, the new file exists
\* and starts with '[', and the file active before the call was closed with a
\* final ']' and compressed to <old name>.gz.
C11_RotateLogPostcondition ==
    [][\A i \in DOMAIN tasks : RotateLogResolves(i) =>
          LET new == tasks'[i].name
              oh == tasks[i].oh
          IN  /\ GetCurrentFilename' = new
              /\ new \in DOMAIN dir'
              /\ inodes'[dir'[new]] # <<>>
              /\ inodes'[dir'[new]][1] = "["
              /\ oh # 0 =>
                    LET old == handles[oh].name
                        content == inodes'[handles[oh].ino]
                    IN  /\ new # old
                        /\ ~handles'[oh].open
                        /\ content # <<>>
                        /\ content[Len(content)] = "]"
                        /\ GzName(old) \in DOMAIN dir'
                        /\ inodes'[dir'[GzName(old)]] = Gzip(content)]_vars

\* the chains a rejected fs call has stopped
Stopped == {i \in DOMAIN tasks : tasks[i].pc = "failed"}

\* the awaited calls of compactLogs and compressLog
CompactionCalls == {"k_readdir", "k_pipeline", "k_unlink"}

\* C12: an I/O failure during the queued operation of saveRecord(r) rejects
\* the future that call returned, and the future of no other call.
C12_FailureRejectsOwnFuture ==
    \A i \in Stopped : tasks[i].kind = "drain" =>
        \A r \in DOMAIN saveFuture :
            IF r = tasks[i].rec THEN saveFuture[r] \notin {"pending", "resolved"}
            ELSE saveFuture[r] \in {"pending", "resolved", "Object Disposed!"}

\* C13: disposeAsync() resolves, having written ']' and closed the handle,
\* even when a queued operation failed with an I/O error: a disposal is never
\* left waiting on a drain that a failed operation has stopped for good.
C13_DisposalNotBlockedByFailure ==
    ~(disposePromise = "pending" /\ disposer.pc = "await" /\ disposer.on \in Stopped)

\* C14: compaction leaves the files of every other logger in the directory
\* untouched, also of a logger whose name extends this logger's name: they
\* stay in place with their content and get no .gz copy.
C14_OtherLoggersUntouched ==
    \A n \in LeftoverFiles : n[1] # LogName =>
        /\ n \in DOMAIN dir
        /\ inodes[dir[n]] = LeftoverContent
        /\ GzName(n) \notin DOMAIN dir

\* C17: within one compactLogs() pass, a failure on one file does not keep the
\* pass from attempting the others: a pass never stops at a failed file with
\* selected files left unattempted.
C17_FailureDoesNotEndThePass ==
    \A i \in Stopped : tasks[i].at \in {"k_pipeline", "k_unlink"} =>
        tasks[i].files \ {tasks[i].cf} = {}

\* C18: a failure of the compaction rotateLog() runs does not keep the
\* rotation from completing: the new file is active, the old handle is closed,
\* firstWrite is reset and lastRotationMs is stamped.
C18_RotationCompletesDespiteCompaction ==
    \A i \in Stopped : (tasks[i].ret = "rotate" /\ tasks[i].at \in CompactionCalls) =>
        /\ currentFile = tasks[i].name
        /\ tasks[i].oh # 0 => ~handles[tasks[i].oh].open
        /\ firstWrite
        /\ lastRotationMs >= tasks[i].name[2]

\* C15: no compaction pass ever compresses or deletes the file whose handle
\* is open for writing: such a file is in the directory, under its name, and
\* has no .gz copy.
C15_OpenFileNeverCompacted ==
    \A h \in DOMAIN handles : handles[h].open =>
        /\ handles[h].name \in DOMAIN dir
        /\ dir[handles[h].name] = handles[h].ino
        /\ GzName(handles[h].name) \notin DOMAIN dir

\* C16: compaction never loses archive data: the content of every retired
\* file (its handle was closed) is in the directory, as the plaintext file or
\* as a complete <name>.gz.
C16_RetiredContentKept ==
    \A h \in DOMAIN handles : ~handles[h].open =>
        LET name == handles[h].name
            content == inodes[handles[h].ino]
        IN  \/ name \in DOMAIN dir /\ inodes[dir[name]] = content
            \/ GzName(name) \in DOMAIN dir /\ inodes[dir[GzName(name)]] = Gzip(content)

Created(h) == inodes[handles[h].ino] # <<>>

C23_OneFileUnlessRotationDue ==
    /\ \A h \in DOMAIN handles : h > 1 =>
           handles[h].name[2] > handles[h - 1].name[2] + rotationIntervalMs
    /\ \A r \in DOMAIN saveFuture : saveFuture[r] = "resolved" => handles # <<>>
    /\ \A ino \in ArchiveInodes : inodes[ino] # <<>> => inodes[ino][1] = "["

\* two records queued before the first drain, written to the one file created
C23_Witness ==
    /\ Len(handles) = 1
    /\ Len(tasks) = 1
    /\ Len(inodes[handles[1].ino]) = 4
    /\ \A r \in 1..2 : r \in DOMAIN saveFuture /\ saveFuture[r] = "resolved"

\* buildChronicler has returned a rejected future / a resolved one
BuildRejected == factory.result \notin {"none", "JsonChronicler"}

BuildResolved == factory.result = "JsonChronicler"

\* the chronicler the factory made is built from the given properties
BuiltFromProperties ==
    /\ factory.constructed = 1
    /\ factory.options = factory.props
    /\ rotationSettings = factory.props.rotationSettings.val
    /\ rotationIntervalMs = GetMsFromRotationOptions(rotationSettings)

\* C24 as stated: buildChronicler rejects, constructing nothing, exactly when
\* chroniclerProperties lacks logDirectory, logName or rotationSettings or
\* rotationSettings is not an object; otherwise it resolves to a chronicler
\* built from the properties.
C24_RejectsExactlyWhenLacking ==
    LET props == factory.props
        lacking == \/ props.logDirectory.type = "undefined"
                   \/ props.logName.type = "undefined"
                   \/ props.rotationSettings.type = "undefined"
                   \/ props.rotationSettings.type # "object"
    IN  factory.result # "none" =>
            /\ BuildRejected <=> lacking
            /\ BuildRejected => factory.constructed = 0
            /\ BuildResolved => BuiltFromProperties

\* C24 amended: buildChronicler rejects, constructing nothing, exactly when
\* logDirectory, logName or rotationSettings is absent or falsy (undefined,
\* null, "", 0) or rotationSettings is not an object; otherwise it resolves to
\* a chronicler built from the properties.
C24_RejectsExactlyWhenFalsy ==
    LET props == factory.props
        empty(v) == \/ v.type \in {"undefined", "null"}
                    \/ v.type = "string" /\ v.val = ""
                    \/ v.type = "number" /\ v.val = 0
        unusable == \/ empty(props.logDirectory)
                    \/ empty(props.logName)
                    \/ empty(props.rotationSettings)
                    \/ props.rotationSettings.type # "object"
    IN  factory.result # "none" =>
            /\ BuildRejected <=> unusable
            /\ BuildRejected => factory.constructed = 0
            /\ BuildResolved => BuiltFromProperties

\* a build that resolved, with a 300 s interval taken from the properties
C24_Witness ==
    /\ BuildResolved
    /\ factory.props.logName = Str("test")
    /\ rotationIntervalMs = 300000

\* the state of the future of the r-th saveRecord call, "none" before the call
FutureOf(r) == IF r \in DOMAIN saveFuture THEN saveFuture[r] ELSE "none"

\* C25: without any flush(), while the chronicler is not disposed and no I/O
\* error occurs, every accepted record is eventually written and its future
\* resolved: each drain, also one that found the queue empty, arms the timer
\* for the next, and an armed timer eventually fires.
C25_EventualCommitWithoutFlush ==
    \A r \in 1..MaxRecords :
        (FutureOf(r) = "pending") ~> (FutureOf(r) = "resolved" /\ Written(r))

\* every drain looked at has run, none for a flush, and all records are resolved
C25_Witness ==
    /\ NumDrains = MaxDrains
    /\ flushes = NoFlush
    /\ ~disposed
    /\ Len(saveFuture) = MaxRecords
    /\ \A r \in DOMAIN saveFuture : saveFuture[r] = "resolved"

\* C26: the bytes written for a record are its serialization as of the
\* saveRecord call: a change the caller makes to the object afterwards never
\* shows in a file.
C26_SerializedAtSubmit ==
    \A r \in Accepted : \A ino \in ArchiveInodes :
        Serialization(r, TRUE) \notin Range(inodes[ino])

\* the drains whose operation is between its first and its last step
ActiveDrains ==
    {i \in DOMAIN tasks : tasks[i].kind = "drain" /\ tasks[i].pc \notin {"done", "failed"}}

\* C27: at most one queued operation is executing at any time, under every
\* interleaving of saveRecord, the timer, flush and disposeAsync: at most one
\* drain is active, and no timer is armed while it is.
C27_OneDrainAtATime ==
    /\ Cardinality(ActiveDrains) <= 1
    /\ ActiveDrains # {} => ~operationTimer /\ orphanTimers = 0 /\ ActiveDrains = {operationPromise}

\* a drain is active, a record is queued behind it and a flush() waits on it
C27_Witness ==
    /\ ActiveDrains # {}
    /\ operationQueue # <<>>
    /\ flushes.on \in ActiveDrains
    /\ disposed

\* no two files were opened under the same name
DistinctNames ==
    \A a, b \in DOMAIN handles : a # b => handles[a].name # handles[b].name

\* C28: a public rotateLog() call that overlaps queued saveRecord operations
\* cannot corrupt the array body: in every file that was closed (no name being
\* used twice) no separator follows the opening '[' and no two records stand
\* next to each other without a separator.
C28_OverlapKeepsBodyIntact ==
    DistinctNames =>
        \A h \in DOMAIN handles :
            ~handles[h].open =>
                LET c == inodes[handles[h].ino]
                IN  /\ Len(c) >= 2 => c[2] # ",\n"
                    /\ \A i \in 1..(Len(c) - 1) :
                          ~(IsRecordText(c[i]) /\ IsRecordText(c[i + 1]))

\* the file handles that are open
OpenNow == {h \in DOMAIN handles : handles[h].open}

\* C29: at every moment at most one file handle opened by the chronicler is
\* open for writing.
C29_AtMostOneOpenHandle ==
    Cardinality(OpenNow) <= 1

\* the file behind handle h has received its closing ']'
HasClosingBracket(h) == "]" \in Range(inodes[handles[h].ino])

\* C30: once a file has received its closing ']' no further byte is written
\* to it and no file of that name is opened for writing again.
C30_ClosedFileIsFinal ==
    [][\A h \in DOMAIN handles :
          HasClosingBracket(h) =>
              /\ inodes'[handles[h].ino] = inodes[handles[h].ino]
              /\ \A n \in DOMAIN handles' \ DOMAIN handles :
                    handles'[n].name # handles[h].name]_vars

\* C31: when the active file is missing on disk, the operation creates a fresh
\* file that is a valid JSON-array prefix: in no file is the opening '['
\* followed by the separator ',\n'.
C31_RecreatedFileStartsClean ==
    \A h \in DOMAIN handles :
        LET c == inodes[handles[h].ino]
        IN  Len(c) >= 2 => c[2] # ",\n"

\* a step in which processFileOperations() is called (by the timer or by
\* flush()) and finds the queue empty, or flush() waits on an empty queue
EmptyQueueTrigger ==
    /\ operationQueue = <<>>
    /\ \/ Len(tasks') > Len(tasks) /\ tasks'[Len(tasks')].kind = "drain"
       \/ flushes' # flushes

\* C32: rotation is lazy.  A timer tick or a flush() that finds the queue
\* empty leaves currentFile, the file handle, lastRotationMs, firstWrite and
\* all file contents unchanged, and the active file changes only in a step of
\* a write operation or of a rotateLog() call.
C32_RotationIsLazy ==
    [][/\ EmptyQueueTrigger => UNCHANGED <<fileState, disk>>
       /\ currentFile' # currentFile =>
             \E i \in DOMAIN tasks :
                 /\ tasks[i].pc = "cl_write"
                 /\ tasks'[i] # tasks[i]
                 /\ tasks[i].rec # 0 \/ tasks[i].kind = "rotateLog"]_vars

\* a timer tick or flush() has found the queue empty (its finished promise is
\* still in operationPromise) while the active file's rotation is due
C32_Witness ==
    /\ operationPromise # 0
    /\ tasks[operationPromise].pc = "done"
    /\ operationQueue = <<>>
    /\ fileHandle # 0
    /\ handles[fileHandle].open
    /\ currentFile \in DOMAIN dir
    /\ ShouldRotate(lastRotationMs)

\* drain i's promise resolves in this step
DrainResolves(i) ==
    /\ tasks[i].kind = "drain"
    /\ tasks[i].pc \notin {"done", "failed"}
    /\ tasks'[i].pc = "done"

\* processFileOperations() is called in this step
DrainStarts == Len(tasks') > Len(tasks) /\ tasks'[Len(tasks')].kind = "drain"

\* C33: a drain's promise resolves only when the operation queue is empty,
\* every record accepted up to then having been executed, and no drain is
\* started while another one is running.
C33_DrainResolvesOnEmptyQueue ==
    [][/\ \A i \in DOMAIN tasks :
             DrainResolves(i) =>
                 /\ operationQueue' = <<>>
                 /\ \A r \in Accepted : saveFuture'[r] = "resolved"
       /\ DrainStarts =>
             /\ ActiveDrains = {}
             /\ tasks'[Len(tasks')].pc = "done" => operationQueue' = <<>>]_vars

\* one drain has executed both records and resolved, the second record having
\* been submitted after the drain had popped the first (pop takes the last
\* element, so the first record is first in the file only in that case)
C33_Witness ==
    /\ Len(tasks) = 1
    /\ tasks[1].kind = "drain"
    /\ tasks[1].pc = "done"
    /\ operationQueue = <<>>
    /\ Len(saveFuture) = 2
    /\ \A r \in DOMAIN saveFuture : saveFuture[r] = "resolved"
    /\ \E ino \in ArchiveInodes :
          /\ Len(inodes[ino]) >= 4
          /\ SubSeq(inodes[ino], 1, 4) = <<"[", Stringify(1), ",\n", Stringify(2)>>

\* C34: operationPromise is defined exactly while a drain is in progress; when
\* no drain is running it is undefined.
C34_PromiseOnlyWhileDraining ==
    operationPromise # 0 <=> ActiveDrains # {}

\* the number of batch timers that are armed
ArmedTimers == (IF operationTimer THEN 1 ELSE 0) + orphanTimers

\* C35: while disposed is false exactly one of these holds: one batch timer is
\* armed, or one drain is in progress; never both, never neither, never two
\* armed timers.
C35_TimerXorDrain ==
    ~disposed =>
        \/ ArmedTimers = 1 /\ ActiveDrains = {}
        \/ ArmedTimers = 0 /\ Cardinality(ActiveDrains) = 1

\* before disposal, a drain started by flush() is running with no timer armed,
\* and a record was submitted meanwhile
C35_Witness ==
    /\ ~disposed
    /\ flushes.on \in ActiveDrains
    /\ ArmedTimers = 0
    /\ operationQueue # <<>>

\* the number of closing brackets in a file's content
Brackets(c) == Cardinality({i \in DOMAIN c : c[i] = "]"})

\* C36: when a public rotateLog() call overlaps disposeAsync(), once both have
\* ended every file handle the chronicler opened is closed and every file it
\* created holds exactly one closing ']' (no file name being used twice).
C36_RotateDisposeOverlapClosesAll ==
    (DistinctNames /\ disposePromise = "resolved" /\ NoneRunning) =>
        \A h \in DOMAIN handles :
            /\ ~handles[h].open
            /\ Brackets(inodes[handles[h].ino]) = 1

\* the drains stopped by a failed operation
FailedDrains == {i \in DOMAIN tasks : tasks[i].kind = "drain" /\ tasks[i].pc = "failed"}

\* C37: a failure of one queued operation does not stall the scheduler: while
\* an operation is still queued behind a failed one (before disposal), a drain
\* is running or a batch timer is armed to run it.
C37_FailureDoesNotStall ==
    (FailedDrains # {} /\ operationQueue # <<>> /\ ~disposed) =>
        ActiveDrains # {} \/ ArmedTimers > 0

\* C38: once disposeAsync has been called no batch timer is armed: the timer
\* is cancelled, and neither a drain in progress at the time, nor the drain
\* disposal starts, nor a later flush() arms one again.
C38_NoTimerAfterDisposal ==
    disposed => ArmedTimers = 0

\* the drain disposeAsync is waiting for has run to its end after the call
C38_Witness ==
    /\ disposed
    /\ disposer.pc = "await"
    /\ tasks[disposer.on].pc = "done"
    /\ operationPromise = 0
    /\ \E r \in DOMAIN saveFuture : saveFuture[r] = "resolved"

====
